---- MODULE Spec2Model ----
(***************************************************************************)
(* Model of the Execution_Service handlers of simple-price-oracle-avs-go-  *)
(* example: the string similarity comparator and the chat agents of        *)
(* handlers/openai.go, and the ExecuteTask HTTP handler.                    *)
(*                                                                         *)
(* Text is modelled as a sequence of Unicode code points (runes); a Go     *)
(* string is the UTF-8 encoding of such a sequence, a sequence of bytes.   *)
(* The model covers code points below 256 (ASCII and Latin-1), which take  *)
(* one or two bytes.  A float64 score 1 - d/m is kept as the exact         *)
(* fraction <<m - d, m>>; for the lengths a string can have, two such      *)
(* floats are equal exactly when the fractions are.                        *)
(***************************************************************************)
EXTENDS Integers, Sequences, FiniteSets, TLC

VARIABLES
    in1, in2,        \* the two arguments of the comparator call (runes)
    called,          \* which comparator entry point has returned, or "none"
    nstr1, nstr2,    \* CalculateStringSimilarity's str1, str2 after normalising (bytes)
    branch,          \* the return statement taken
    distance,        \* CalculateStringSimilarity's local distance
    similarity,      \* the returned float64, as a fraction <<num, den>>
    pc,              \* per request: where its ExecuteTask invocation stands
    request,         \* per request: the inbound method and body
    locals,          \* per request: ExecuteTask's local variables after decoding
    providerCalls,   \* per request: the CreateChatCompletion requests sent
    providerReplies, \* per request: what CreateChatCompletion returned
    agentResult,     \* per request: what GetFarmingStrategy returned
    sendTaskCalls,   \* per request: the services.SendTask calls made
    responses        \* per request: the c.JSON calls made, in order

simVars == <<in1, in2, called, nstr1, nstr2, branch, distance, similarity>>

taskVars ==
    <<pc, request, locals, providerCalls, providerReplies, agentResult, sendTaskCalls,
      responses>>

vars == <<simVars, taskVars>>

----------------------------------------------------------------------------
(* unicode and strings packages, restricted to code points below 256 *)

IsUpper(r) == (r >= 65 /\ r <= 90) \/ (r >= 192 /\ r <= 222 /\ r # 215)

ToLowerRune(r) == IF IsUpper(r) THEN r + 32 ELSE r

IsLetter(r) ==
    \/ r >= 65 /\ r <= 90
    \/ r >= 97 /\ r <= 122
    \/ r \in {170, 181, 186}
    \/ r >= 192 /\ r <= 255 /\ r \notin {215, 247}

IsDigit(r) == r >= 48 /\ r <= 57

IsSpace(r) == r \in {9, 10, 11, 12, 13, 32, 133, 160}

ToLower(s) == [i \in 1..Len(s) |-> ToLowerRune(s[i])]

\* The UTF-8 bytes of one rune.
EncodeRune(r) == IF r < 128 THEN <<r>> ELSE <<192 + (r \div 64), 128 + (r % 64)>>

RECURSIVE EncodeString(_)
EncodeString(s) ==
    IF s = <<>> THEN <<>> ELSE EncodeRune(Head(s)) \o EncodeString(Tail(s))

\* strings.TrimSpace on a sequence of runes.
RECURSIVE TrimLeft(_)
TrimLeft(s) == IF s # <<>> /\ IsSpace(Head(s)) THEN TrimLeft(Tail(s)) ELSE s

RECURSIVE TrimRight(_)
TrimRight(s) ==
    IF s # <<>> /\ IsSpace(s[Len(s)]) THEN TrimRight(SubSeq(s, 1, Len(s) - 1)) ELSE s

TrimSpace(s) == TrimRight(TrimLeft(s))

----------------------------------------------------------------------------
(* normalizeString *)

\* One iteration of the loop over the runes of s: the builder and lastWasSpace.
NormalizeStepKeepsEverySpace(st, r) ==
    IF IsLetter(r) \/ IsDigit(r)
    THEN [result |-> Append(st.result, r), lastWasSpace |-> FALSE]
    ELSE IF IsSpace(r)
         THEN [result |-> Append(st.result, 32), lastWasSpace |-> TRUE]
         ELSE st

NormalizeStep(st, r) ==
    IF IsLetter(r) \/ IsDigit(r)
    THEN [result |-> Append(st.result, r), lastWasSpace |-> FALSE]
    ELSE IF IsSpace(r) /\ ~st.lastWasSpace
         THEN [result |-> Append(st.result, 32), lastWasSpace |-> TRUE]
         ELSE st

RECURSIVE NormalizeLoop(_, _)
NormalizeLoop(st, s) ==
    IF s = <<>> THEN st ELSE NormalizeLoop(NormalizeStep(st, Head(s)), Tail(s))

\* The runes of the normalised string.
normalizeRunes(s) ==
    TrimSpace(NormalizeLoop([result |-> <<>>, lastWasSpace |-> TRUE], ToLower(s)).result)

\* The normalised Go string: its bytes.
normalizeString(s) == EncodeString(normalizeRunes(s))

----------------------------------------------------------------------------
(* levenshteinDistance, over the bytes of its arguments *)

min(a, b, c) ==
    IF a < b
    THEN (IF a < c THEN a ELSE c)
    ELSE (IF b < c THEN b ELSE c)

SubstitutionCostTwo(x, y) == IF x = y THEN 0 ELSE 2

SubstitutionCost(x, y) == IF x = y THEN 0 ELSE 1

\* Row 0 of the matrix after the initialisation loops: matrix[0][j] = j.
\* A row is kept as a sequence, cell j at index j + 1.
FirstRow(cols) == [k \in 1..cols |-> k - 1]

\* Cells 0..j of row i, filled left to right as the inner loop does, from the
\* row above: matrix[i][0] = i, then the minimum of deletion, insertion and
\* substitution.
RECURSIVE FillRow(_, _, _, _, _)
FillRow(above, i, j, s1, s2) ==
    IF j = 0 THEN <<i>>
    ELSE LET left == FillRow(above, i, j - 1, s1, s2)
         IN  Append(left,
                    min(above[j + 1] + 1,
                        left[j] + 1,
                        above[j] + SubstitutionCost(s1[i], s2[j])))

\* Row i of the filled matrix.
RECURSIVE MatrixRow(_, _, _)
MatrixRow(i, s1, s2) ==
    IF i = 0 THEN FirstRow(Len(s2) + 1)
    ELSE LET above == MatrixRow(i - 1, s1, s2)
         IN  \* the row above is complete (cols cells) before row i is filled
             IF Len(above) = Len(s2) + 1 THEN FillRow(above, i, Len(s2), s1, s2) ELSE above

levenshteinDistance(s1, s2) == MatrixRow(Len(s1), s1, s2)[Len(s2) + 1]

----------------------------------------------------------------------------
(* CalculateStringSimilarity and its pass-throughs *)

MaxLenOfFirst(a, b) == a

MaxLen(a, b) == IF a > b THEN a ELSE b

\* The locals and the result of one call, on rune sequences a and b.
SimilarityAlwaysDivides(a, b) ==
    LET str1 == normalizeString(a)
        str2 == normalizeString(b)
        d == levenshteinDistance(str1, str2)
        m == MaxLen(Len(str1), Len(str2))
    IN  [str1 |-> str1, str2 |-> str2, branch |-> "distance", distance |-> d,
         similarity |-> <<m - d, m>>]

SimilarityCall(a, b) ==
    LET str1 == normalizeString(a)
        str2 == normalizeString(b)
    IN  IF Len(str1) = 0 /\ Len(str2) = 0
        THEN [str1 |-> str1, str2 |-> str2, branch |-> "bothEmpty", distance |-> 0,
              similarity |-> <<1, 1>>]
        ELSE IF Len(str1) = 0 \/ Len(str2) = 0
        THEN [str1 |-> str1, str2 |-> str2, branch |-> "oneEmpty", distance |-> 0,
              similarity |-> <<0, 1>>]
        ELSE LET d == levenshteinDistance(str1, str2)
                 m == MaxLen(Len(str1), Len(str2))
             IN  [str1 |-> str1, str2 |-> str2, branch |-> "distance", distance |-> d,
                  similarity |-> <<m - d, m>>]

CalculateStringSimilarity(a, b) == SimilarityCall(a, b).similarity

CompareResponses(response1, response2) == CalculateStringSimilarity(response1, response2)

CompareStrategies(strategy1, strategy2) == CalculateStringSimilarity(strategy1, strategy2)

----------------------------------------------------------------------------
(* Chat agents.  A rendered text is the sequence of its segments. *)

PersonaPrompt == "You are a specialized financial advisor focused on stable yield farming strategies. ..."

NilError == "nil"

EmptyChatResponse == [InputPrompt |-> <<>>, Response |-> ""]

NewOpenAIAgent(model, temperature) ==
    [model |-> model, temperature |-> temperature, prompt |-> ""]

SetPrompt(agent, prompt) == [agent EXCEPT !.prompt = prompt]

Prompt(agent) == agent.prompt

\* NewStableYieldFarmingAgent: the wrapped agent with the persona prompt set.
NewStableYieldFarmingAgent(agent) == [inner |-> SetPrompt(agent, PersonaPrompt)]

\* fmt.Sprintf(FarmingStrategyPrompt, portfolioSummary, prices, apr)
RenderFarmingStrategyPrompt(portfolioSummary, prices, apr) ==
    <<"I have the following portfolio:", portfolioSummary,
      "Here is the current market price of the tokens in the portfolio:", prices,
      "Here is the current APR of the tokens other than this deposit_apr is 0 and not borrowable:", apr,
      "I want to optimize my yield farming strategy. ...">>

\* The role switch of OpenAIAgent.Chat.
ProviderRole(role) ==
    IF role = "system" THEN "system"
    ELSE IF role = "assistant" THEN "assistant"
    ELSE "user"

\* strings.Join of the "role:\ncontent" parts with a blank line between.
RECURSIVE InputPromptOf(_)
InputPromptOf(messages) ==
    IF messages = <<>> THEN <<>>
    ELSE <<Head(messages).Role, ":\n">> \o Head(messages).Content
         \o (IF Len(messages) = 1 THEN <<>> ELSE <<"\n\n">> \o InputPromptOf(Tail(messages)))

\* The ChatCompletionRequest OpenAIAgent.Chat builds from its messages.
ChatCompletionRequest(agent, messages) ==
    [Model |-> agent.model,
     Messages |-> [i \in 1..Len(messages) |->
                      [Role |-> ProviderRole(messages[i].Role),
                       Content |-> messages[i].Content]]]

\* What OpenAIAgent.Chat returns once CreateChatCompletion has returned reply.
OpenAIChatReturnAcceptsNoChoices(messages, reply) ==
    IF reply.err # NilError
    THEN [response |-> EmptyChatResponse, err |-> reply.err]
    ELSE [response |-> [InputPrompt |-> InputPromptOf(messages),
                        Response |-> IF Len(reply.choices) = 0 THEN "" ELSE reply.choices[1]],
          err |-> NilError]

OpenAIChatReturn(messages, reply) ==
    IF reply.err # NilError
    THEN [response |-> EmptyChatResponse, err |-> reply.err]
    ELSE IF Len(reply.choices) = 0
    THEN [response |-> EmptyChatResponse, err |-> "no completion choices returned"]
    ELSE [response |-> [InputPrompt |-> InputPromptOf(messages),
                        Response |-> reply.choices[1]],
          err |-> NilError]

\* StableYieldFarmingAgent.Chat: the messages handed to the inner agent.
StableChatMessages(agent, messages) ==
    <<[Role |-> "system", Content |-> <<Prompt(agent.inner)>>]>> \o messages

\* GetFarmingStrategy: the messages handed to StableYieldFarmingAgent.Chat.
FarmingStrategyMessages(prices, portfolioSummary, apr) ==
    <<[Role |-> "user",
       Content |-> RenderFarmingStrategyPrompt(portfolioSummary, prices, apr)]>>

\* GetFarmingStrategy up to the remote call: the request sent to the provider.
GetFarmingStrategyCall(agent, prices, portfolioSummary, apr) ==
    ChatCompletionRequest(agent.inner,
        StableChatMessages(agent, FarmingStrategyMessages(prices, portfolioSummary, apr)))

\* GetFarmingStrategy from the remote call's return: Chat's result, returned as is.
GetFarmingStrategyReturn(agent, prices, portfolioSummary, apr, reply) ==
    OpenAIChatReturn(
        StableChatMessages(agent, FarmingStrategyMessages(prices, portfolioSummary, apr)),
        reply)

----------------------------------------------------------------------------
(* Request bodies and their decoding.                                      *)
(* A JSON value is [t, s, n]: t its JSON type, s its text when a string,   *)
(* n its number when a number.  encoding/json decodes into interface{}     *)
(* values: a JSON string becomes a Go string, a JSON number a float64, a   *)
(* JSON boolean a bool.                                                    *)

JsonString(s) == [t |-> "string", s |-> s, n |-> 0]

JsonNumber(n) == [t |-> "number", s |-> "", n |-> n]

JsonBool == [t |-> "bool", s |-> "", n |-> 0]

Absent == [t |-> "absent", s |-> "", n |-> 0]

Keys == {"taskDefinitionId", "price", "portfolio", "model", "apr"}

\* What each key of a request object can hold; Absent: the key is missing.
FieldChoices(k) ==
    IF k = "taskDefinitionId" THEN {Absent, JsonNumber(7), JsonString("7")}
    ELSE IF k = "price" THEN {Absent, JsonString("3000"), JsonNumber(3000)}
    ELSE IF k = "portfolio" THEN {Absent, JsonString("50% ETH"), JsonBool}
    ELSE IF k = "model" THEN {Absent, JsonString("gpt-4o")}
    ELSE {Absent, JsonString("5%")}

NoBody == [kind |-> "NoBody", fields |-> [k \in Keys |-> Absent]]

Undecodable == [kind |-> "undecodable", fields |-> [k \in Keys |-> Absent]]

ObjectBodies ==
    {[kind |-> "object", fields |-> f] :
        f \in {g \in [Keys -> UNION {FieldChoices(k) : k \in Keys}] :
                  \A k \in Keys : g[k] \in FieldChoices(k)}}

Bodies == {NoBody, Undecodable} \cup ObjectBodies

\* The Go value encoding/json stores in the map for a JSON value.
GoValueOf(v) ==
    IF v.t = "string" THEN [type |-> "string", s |-> v.s, n |-> 0]
    ELSE IF v.t = "number" THEN [type |-> "float64", s |-> "", n |-> v.n]
    ELSE [type |-> "bool", s |-> "", n |-> 0]

NilInterface == [type |-> "nil", s |-> "", n |-> 0]

\* json.NewDecoder(body).Decode(&requestBody): whether it returned nil, and
\* the map (a missing key reads as the nil interface).
Decode(body) ==
    [ok |-> body.kind = "object",
     requestBody |-> [k \in Keys |->
        IF body.kind = "object" /\ body.fields[k] # Absent
        THEN GoValueOf(body.fields[k]) ELSE NilInterface]]

\* requestBody[key].(int) and requestBody[key].(string)
AssertInt(v) == [val |-> IF v.type = "int" THEN v.n ELSE 0, ok |-> v.type = "int"]

AssertString(v) == [val |-> IF v.type = "string" THEN v.s ELSE "", ok |-> v.type = "string"]

\* ExecuteTask's lines 25 to 53: the locals after decoding the body.
DecodeLocalsRejectsPartial(body) ==
    LET d == Decode(body)
        allOk == /\ body.kind = "object"
                 /\ \A k \in Keys \ {"taskDefinitionId"} : AssertString(d.requestBody[k]).ok
        field(k) == IF allOk THEN AssertString(d.requestBody[k]).val ELSE ""
    IN  [taskDefinitionId |-> 0,
         price |-> field("price"), portfolio |-> field("portfolio"),
         model |-> field("model"), apr |-> field("apr")]

DecodeLocals(body) ==
    LET d == Decode(body)
        read == body.kind # "NoBody" /\ d.ok
        int(k) == IF read /\ AssertInt(d.requestBody[k]).ok
                  THEN AssertInt(d.requestBody[k]).val ELSE 0
        str(k) == IF read /\ AssertString(d.requestBody[k]).ok
                  THEN AssertString(d.requestBody[k]).val ELSE ""
    IN  [taskDefinitionId |-> int("taskDefinitionId"),
         price |-> str("price"), portfolio |-> str("portfolio"),
         model |-> str("model"), apr |-> str("apr")]

----------------------------------------------------------------------------
(* ExecuteTask *)

\* The number of requests the handler serves.
MaxReqs == 1

Reqs == 1..MaxReqs

Methods == {"POST", "GET"}

\* What CreateChatCompletion can return: an error, or completion choices.
ProviderReplies ==
    {[err |-> "request failed", choices |-> <<>>],
     [err |-> NilError, choices |-> <<>>],
     [err |-> NilError, choices |-> <<"strategy A">>],
     [err |-> NilError, choices |-> <<"strategy B", "strategy A">>],
     [err |-> NilError, choices |-> <<"">>]}

\* The agent ExecuteTask builds at lines 57 and 58.
AgentOf(l) == NewStableYieldFarmingAgent(NewOpenAIAgent(l.model, 0))

\* json.Marshal of TaskData: the fields in declaration order.  Marshalling a
\* struct of strings returns no error.
MarshalTaskData(taskData) ==
    <<<<"price", taskData.Price>>, <<"portfolio", taskData.Portfolio>>,
      <<"model", taskData.Model>>, <<"strategy", taskData.Strategy>>,
      <<"apr", taskData.Apr>>>>

TaskDataOf(l, agentResponse) ==
    [Price |-> l.price, Portfolio |-> l.portfolio, Model |-> l.model,
     Strategy |-> agentResponse.Response, Apr |-> l.apr]

JSONResponse(status, key, text) == [status |-> status, key |-> key, text |-> text]

NoResult == [response |-> EmptyChatResponse, err |-> NilError]

ZeroLocals == [taskDefinitionId |-> 0, price |-> "", portfolio |-> "", model |-> "", apr |-> ""]

\* No invocation of the handler has started, for the requests of R.
TaskInitOver(R) ==
    /\ pc = [r \in R |-> "idle"]
    /\ request = [r \in R |-> [method |-> "", body |-> NoBody]]
    /\ locals = [r \in R |-> ZeroLocals]
    /\ providerCalls = [r \in R |-> <<>>]
    /\ providerReplies = [r \in R |-> <<>>]
    /\ agentResult = [r \in R |-> NoResult]
    /\ sendTaskCalls = [r \in R |-> <<>>]
    /\ responses = [r \in R |-> <<>>]

TaskInit == TaskInitOver(Reqs)

\* A request with another method: the else branch, lines 95 to 99.
ExecuteTaskInvalidMethod(r) ==
    /\ pc[r] = "idle"
    /\ \E m \in Methods \ {"POST"} :
          request' = [request EXCEPT ![r] = [method |-> m, body |-> NoBody]]
    /\ responses' = [responses EXCEPT ![r] =
                        Append(@, JSONResponse(405, "error", "Invalid method"))]
    /\ pc' = [pc EXCEPT ![r] = "done"]
    /\ UNCHANGED <<locals, providerCalls, providerReplies, agentResult, sendTaskCalls,
                   simVars>>

\* A POST request, from entry to the remote call inside GetFarmingStrategy.
ExecuteTaskPostBody(r, body) ==
    /\ pc[r] = "idle"
    /\ LET l == DecodeLocals(body)
       IN  /\ request' = [request EXCEPT ![r] = [method |-> "POST", body |-> body]]
           /\ locals' = [locals EXCEPT ![r] = l]
           /\ providerCalls' = [providerCalls EXCEPT ![r] =
                 Append(@, GetFarmingStrategyCall(AgentOf(l), l.price, l.portfolio, l.apr))]
    /\ pc' = [pc EXCEPT ![r] = "awaitProvider"]
    /\ UNCHANGED <<providerReplies, agentResult, sendTaskCalls, responses, simVars>>

ExecuteTaskPost(r) == \E body \in Bodies : ExecuteTaskPostBody(r, body)

\* Lines 61 to 66: what is written once GetFarmingStrategy has returned; the
\* handler goes on to line 68 in either case.
AfterStrategy(res) ==
    IF res.err # NilError
    THEN <<JSONResponse(500, "error", "Failed to fetch strategy")>>
    ELSE <<>>

\* The remote call returns and the handler runs to its end, lines 60 to 94.
\* The locals an invocation reads back after the remote call: they are
\* variables of the function, one set per invocation.
HandlerLocalsShared(r) ==
    LET others == {q \in DOMAIN pc : q # r /\ pc[q] # "idle" /\ request[q].method = "POST"}
    IN  IF others = {} THEN locals[r] ELSE locals[CHOOSE q \in others : TRUE]

HandlerLocals(r) == locals[r]

ExecuteTaskResumeReply(r, reply) ==
    /\ pc[r] = "awaitProvider"
    /\ LET l == HandlerLocals(r)
           res == GetFarmingStrategyReturn(AgentOf(l), l.price, l.portfolio, l.apr, reply)
           proofOfTask == MarshalTaskData(TaskDataOf(l, res.response))
       IN  /\ providerReplies' = [providerReplies EXCEPT ![r] = Append(@, reply)]
           /\ agentResult' = [agentResult EXCEPT ![r] = res]
           /\ sendTaskCalls' = [sendTaskCalls EXCEPT ![r] =
                 Append(@, [proofOfTask |-> proofOfTask, data |-> "",
                            taskDefinitionId |-> l.taskDefinitionId])]
           /\ responses' = [responses EXCEPT ![r] =
                 @ \o AfterStrategy(res)
                   \o <<JSONResponse(200, "strategy", res.response.Response)>>]
    /\ pc' = [pc EXCEPT ![r] = "done"]
    /\ UNCHANGED <<request, locals, providerCalls, simVars>>

ExecuteTaskResume(r) == \E reply \in ProviderReplies : ExecuteTaskResumeReply(r, reply)

----------------------------------------------------------------------------
(* The comparator as a state machine: one call on a chosen pair of texts *)

\* 'a', 'B', '1', space, tab, ',' and U+00E9 (two bytes in UTF-8).
SimAlphabet == {97, 66, 49, 32, 9, 44, 233}

\* The texts compared have at most this many runes together.
MaxTotalLen == 4

RunesOfLen(k) == [1..k -> SimAlphabet]

RunesUpTo(n) == UNION {RunesOfLen(k) : k \in 0..n}

BoundedPairs ==
    UNION {RunesOfLen(k) \X RunesUpTo(MaxTotalLen - k) : k \in 0..MaxTotalLen}

Kitten == <<107, 105, 116, 116, 101, 110>>

Sitting == <<115, 105, 116, 116, 105, 110, 103>>

HelloWorldPunct == <<72, 101, 108, 108, 111, 44, 32, 87, 111, 114, 108, 100, 33>>

HelloWorldPlain == <<104, 101, 108, 108, 111, 32, 119, 111, 114, 108, 100>>

\* The fixtures of the comparator, in both argument orders.
Fixtures ==
    {<<Kitten, Sitting>>, <<Sitting, Kitten>>,
     <<HelloWorldPunct, HelloWorldPlain>>, <<HelloWorldPlain, HelloWorldPunct>>}

SimInputs == BoundedPairs \cup Fixtures

SimIdle ==
    /\ called = "none"
    /\ nstr1 = <<>>
    /\ nstr2 = <<>>
    /\ branch = "none"
    /\ distance = 0
    /\ similarity = <<0, 1>>

SimInit ==
    /\ \E p \in SimInputs : in1 = p[1] /\ in2 = p[2]
    /\ SimIdle
    /\ TaskInit

\* The call returns: the locals of CalculateStringSimilarity and its result.
Returns(name, frame, result) ==
    /\ called' = name
    /\ nstr1' = frame.str1
    /\ nstr2' = frame.str2
    /\ branch' = frame.branch
    /\ distance' = frame.distance
    /\ similarity' = result
    /\ UNCHANGED <<in1, in2, taskVars>>

CallCalculateStringSimilarity ==
    /\ called = "none"
    /\ Returns("CalculateStringSimilarity", SimilarityCall(in1, in2),
               CalculateStringSimilarity(in1, in2))

CallCompareResponses ==
    /\ called = "none"
    /\ Returns("CompareResponses", SimilarityCall(in1, in2), CompareResponses(in1, in2))

CallCompareStrategies ==
    /\ called = "none"
    /\ Returns("CompareStrategies", SimilarityCall(in1, in2), CompareStrategies(in1, in2))

SimNext ==
    \/ CallCalculateStringSimilarity
    \/ CallCompareResponses
    \/ CallCompareStrategies

SpecSim == SimInit /\ [][SimNext]_vars

----------------------------------------------------------------------------
(* The handler as a state machine *)

Init == TaskInit /\ in1 = <<>> /\ in2 = <<>> /\ SimIdle

Next ==
    \E r \in Reqs :
        \/ ExecuteTaskInvalidMethod(r)
        \/ ExecuteTaskPost(r)
        \/ ExecuteTaskResume(r)

Spec == Init /\ [][Next]_vars

----------------------------------------------------------------------------
(* Concurrent invocations of the handler: gin serves each request on its   *)
(* own goroutine, so the steps of different requests interleave freely.    *)

\* The number of requests in flight together.
MaxConcReqs == 2

ConcReqs == 1..MaxConcReqs

ObjectBody(taskDefinitionId, price, portfolio, model, apr) ==
    [kind |-> "object",
     fields |-> [k \in Keys |->
        IF k = "taskDefinitionId" THEN taskDefinitionId
        ELSE IF k = "price" THEN price
        ELSE IF k = "portfolio" THEN portfolio
        ELSE IF k = "model" THEN model
        ELSE apr]]

\* Request bodies that differ in every field, a partial one, and no body.
ConcBodies ==
    {ObjectBody(JsonNumber(7), JsonString("3000"), JsonString("50% ETH"),
                JsonString("gpt-4o"), JsonString("5%")),
     ObjectBody(Absent, JsonString("3100"), JsonString("100% USDC"),
                JsonString("gpt-4o-mini"), JsonString("7%")),
     ObjectBody(Absent, JsonString("3000"), JsonNumber(1), Absent, JsonString("7%")),
     NoBody}

ConcReplies ==
    {reply \in ProviderReplies : reply.err # NilError \/ Len(reply.choices) \in {1, 2}}

ConcInit == TaskInitOver(ConcReqs) /\ in1 = <<>> /\ in2 = <<>> /\ SimIdle

ConcNext ==
    \E r \in ConcReqs :
        \/ ExecuteTaskInvalidMethod(r)
        \/ \E body \in ConcBodies : ExecuteTaskPostBody(r, body)
        \/ \E reply \in ConcReplies : ExecuteTaskResumeReply(r, reply)

SpecConc == ConcInit /\ [][ConcNext]_vars

----------------------------------------------------------------------------
(* Vocabulary of the comparator's properties *)

IsKept(r) == IsLetter(r) \/ IsDigit(r)

\* The maximal runs of non-zero entries of s, in order.
RECURSIVE SplitAtZero(_, _, _)
SplitAtZero(s, cur, acc) ==
    IF s = <<>> THEN (IF cur = <<>> THEN acc ELSE Append(acc, cur))
    ELSE IF Head(s) = 0
         THEN SplitAtZero(Tail(s), <<>>, IF cur = <<>> THEN acc ELSE Append(acc, cur))
         ELSE SplitAtZero(Tail(s), Append(cur, Head(s)), acc)

RECURSIVE JoinWords(_)
JoinWords(ws) ==
    IF ws = <<>> THEN <<>>
    ELSE IF Len(ws) = 1 THEN ws[1]
    ELSE ws[1] \o <<32>> \o JoinWords(Tail(ws))

\* The lowercased words of s when every character that is neither a letter
\* nor a digit separates words.
WordsByAnySeparator(s) ==
    SplitAtZero([i \in 1..Len(s) |-> IF IsKept(s[i]) THEN ToLowerRune(s[i]) ELSE 0],
                <<>>, <<>>)

\* The lowercased words of s when only whitespace separates words and every
\* other character that is neither a letter nor a digit is deleted.
WordsByWhitespace(s) ==
    LET t == SelectSeq(s, LAMBDA r : IsKept(r) \/ IsSpace(r))
    IN  SplitAtZero([i \in 1..Len(t) |-> IF IsSpace(t[i]) THEN 0 ELSE ToLowerRune(t[i])],
                    <<>>, <<>>)

\* A normalised string of bytes is tidy: no leading, trailing or doubled space.
Tidy(b) ==
    /\ b # <<>> => b[1] # 32 /\ b[Len(b)] # 32
    /\ \A i \in 1..(Len(b) - 1) : ~(b[i] = 32 /\ b[i + 1] = 32)

\* The minimum number of single-element insertions, deletions and
\* substitutions turning a into b (Wagner-Fischer, one column at a time).
RECURSIVE EditColumn(_, _, _, _, _)
EditColumn(prev, a, b, j, i) ==
    \* cells 0..i of column j, from column j - 1; cell i at index i + 1
    IF i = 0 THEN <<j>>
    ELSE LET upper == EditColumn(prev, a, b, j, i - 1)
             viaSub == prev[i] + (IF a[i] = b[j] THEN 0 ELSE 1)
             viaIns == prev[i + 1] + 1
             viaDel == upper[i] + 1
             m1 == IF viaSub <= viaIns THEN viaSub ELSE viaIns
         IN  Append(upper, IF m1 <= viaDel THEN m1 ELSE viaDel)

RECURSIVE EditColumns(_, _, _)
EditColumns(a, b, j) ==
    IF j = 0 THEN [k \in 1..(Len(a) + 1) |-> k - 1]
    ELSE LET prev == EditColumns(a, b, j - 1)
         IN  IF Len(prev) = Len(a) + 1 THEN EditColumn(prev, a, b, j, Len(a)) ELSE prev

EditDistance(a, b) == EditColumns(a, b, Len(b))[Len(a) + 1]

\* Fractions as float64 values.
IsValue(f) == f[2] > 0

IsOne(f) == IsValue(f) /\ f[1] = f[2]

IsZero(f) == IsValue(f) /\ f[1] = 0

SameValue(f, g) == IsValue(f) /\ IsValue(g) /\ f[1] * g[2] = g[1] * f[2]

----------------------------------------------------------------------------
(* Vocabulary of the handler's properties *)

IsPost(r) == request[r].method = "POST"

Done(r) == pc[r] = "done"

GenerationFailed(r) == agentResult[r].err # NilError

StringKeys == {"price", "portfolio", "model", "apr"}

\* The field of a request body when it is a JSON string, the empty text otherwise.
StringField(body, k) ==
    IF body.kind = "object" /\ body.fields[k].t = "string" THEN body.fields[k].s ELSE ""

----------------------------------------------------------------------------
(* Properties of ExecuteTask and the agents, under Spec *)

\* C1: a POST request whose strategy generation returned an error is aborted:
\* no TaskRecord is built and SendTask is never called for it.
C1_ErrorAbortsTask ==
    \A r \in Reqs :
        (Done(r) /\ IsPost(r) /\ GenerationFailed(r)) => sendTaskCalls[r] = <<>>

\* C2: GetFarmingStrategy succeeds only when the provider call succeeded with
\* at least one choice, and then carries the first choice; when the call
\* errors or returns no choices it returns an error with the empty
\* ChatResponse, the provider's own error when there is one.
C2_NoChoiceIsAnError ==
    \A r \in Reqs :
        (Done(r) /\ IsPost(r)) =>
            LET reply == providerReplies[r][1]
                res == agentResult[r]
            IN  /\ Len(providerReplies[r]) = 1
                /\ res.err = NilError =>
                      /\ reply.err = NilError
                      /\ Len(reply.choices) >= 1
                      /\ res.response.Response = reply.choices[1]
                /\ (reply.err # NilError \/ Len(reply.choices) = 0) =>
                      /\ res.err # NilError
                      /\ res.response = EmptyChatResponse
                /\ reply.err # NilError => res.err = reply.err

C2_Witness ==
    \E r \in Reqs :
        /\ Done(r) /\ IsPost(r)
        /\ providerReplies[r] = <<[err |-> NilError, choices |-> <<>>]>>
        /\ agentResult[r].err = "no completion choices returned"
        /\ agentResult[r].response = EmptyChatResponse

\* C3: when the body is a JSON object whose taskDefinitionId is the integer
\* n, SendTask is handed n.
C3_TaskDefinitionIdForwarded ==
    \A r \in Reqs :
        (Done(r) /\ IsPost(r) /\ request[r].body.kind = "object"
                 /\ request[r].body.fields["taskDefinitionId"].t = "number") =>
            /\ sendTaskCalls[r] # <<>>
            /\ \A i \in DOMAIN sendTaskCalls[r] :
                  sendTaskCalls[r][i].taskDefinitionId =
                      request[r].body.fields["taskDefinitionId"].n

\* C4: whatever the body of a POST request, the handler calls
\* GetFarmingStrategy, with price, portfolio, model and apr each the body's
\* string value when it is present as a string and empty otherwise.
C4_DecodingNeverRejects ==
    \A r \in Reqs :
        (IsPost(r) /\ pc[r] # "idle") =>
            /\ Len(providerCalls[r]) = 1
            /\ \A k \in StringKeys : locals[r][k] = StringField(request[r].body, k)
            /\ providerCalls[r][1].Model = StringField(request[r].body, "model")
            /\ providerCalls[r][1].Messages[2].Content =
                  RenderFarmingStrategyPrompt(StringField(request[r].body, "portfolio"),
                                              StringField(request[r].body, "price"),
                                              StringField(request[r].body, "apr"))

C4_Witness ==
    \E r \in Reqs :
        /\ IsPost(r) /\ pc[r] = "awaitProvider"
        /\ request[r].body.kind = "object"
        /\ request[r].body.fields["price"].t = "number"
        /\ request[r].body.fields["portfolio"] = JsonString("50% ETH")
        /\ locals[r].price = "" /\ locals[r].portfolio = "50% ETH"
        /\ Len(providerCalls[r]) = 1

\* C10: every request gets exactly one response: the success response with
\* the strategy when generation succeeds, the generic error alone when it
\* fails, method-not-allowed alone (no agent call, no submission) otherwise.
C10_ExactlyOneResponse ==
    \A r \in Reqs :
        Done(r) =>
            /\ Len(responses[r]) = 1
            /\ (IsPost(r) /\ ~GenerationFailed(r)) =>
                  responses[r][1] =
                      JSONResponse(200, "strategy", agentResult[r].response.Response)
            /\ (IsPost(r) /\ GenerationFailed(r)) =>
                  responses[r][1] = JSONResponse(500, "error", "Failed to fetch strategy")
            /\ ~IsPost(r) =>
                  /\ responses[r][1] = JSONResponse(405, "error", "Invalid method")
                  /\ providerCalls[r] = <<>>
                  /\ sendTaskCalls[r] = <<>>

----------------------------------------------------------------------------
(* Properties of the comparator, under SpecSim *)

Returned == called # "none"

\* C5, as claimed: every run of characters that are neither letters nor
\* digits between kept characters becomes exactly one space, so texts with
\* the same words under any separators normalise to the same string.
C5_AnySeparatorBecomesSpace ==
    Returned =>
        /\ nstr1 = EncodeString(JoinWords(WordsByAnySeparator(in1)))
        /\ nstr2 = EncodeString(JoinWords(WordsByAnySeparator(in2)))
        /\ Tidy(nstr1) /\ Tidy(nstr2)
        /\ WordsByAnySeparator(in1) = WordsByAnySeparator(in2) => nstr1 = nstr2

\* C5, amended: normalizeString lowercases, keeps letters and digits,
\* deletes every other character that is not whitespace without leaving a
\* space, and puts exactly one space for each run of whitespace between kept
\* characters; the result has no leading, trailing or doubled space, and
\* texts with the same whitespace-separated words normalise to the same
\* string.
C5_WhitespaceBecomesSpace ==
    Returned =>
        /\ nstr1 = EncodeString(JoinWords(WordsByWhitespace(in1)))
        /\ nstr2 = EncodeString(JoinWords(WordsByWhitespace(in2)))
        /\ Tidy(nstr1) /\ Tidy(nstr2)
        /\ WordsByWhitespace(in1) = WordsByWhitespace(in2) => nstr1 = nstr2

C5_Witness ==
    /\ Returned
    /\ in1 = <<97, 32, 9, 66>>
    /\ nstr1 = <<97, 32, 98>>

\* C6: when both normalised strings are non-empty the score is
\* 1 - d / max(len), len counting characters and d the minimum number of
\* character insertions, deletions and substitutions.
C6_CharacterEditDistance ==
    (Returned /\ nstr1 # <<>> /\ nstr2 # <<>>) =>
        LET na == normalizeRunes(in1)
            nb == normalizeRunes(in2)
            m == IF Len(na) > Len(nb) THEN Len(na) ELSE Len(nb)
        IN  SameValue(similarity, <<m - EditDistance(na, nb), m>>)

\* C7: the score is 1.0 exactly when the normalised strings are equal, so
\* 1.0 for equal texts, and 0.0 when exactly one normalised string is empty.
C7_OneIffSameNormalForm ==
    Returned =>
        /\ IsOne(similarity) <=> nstr1 = nstr2
        /\ in1 = in2 => IsOne(similarity)
        /\ (nstr1 = <<>>) # (nstr2 = <<>>) => IsZero(similarity)

C7_Witness ==
    /\ Returned
    /\ in1 = HelloWorldPunct /\ in2 = HelloWorldPlain
    /\ IsOne(similarity)

\* C8: the score does not depend on the order of the two texts, and the
\* pass-throughs return the score of CalculateStringSimilarity.
C8_Commutative ==
    Returned =>
        /\ SameValue(similarity, CalculateStringSimilarity(in2, in1))
        /\ SameValue(similarity, CalculateStringSimilarity(in1, in2))

C8_Witness ==
    /\ called = "CompareStrategies"
    /\ in1 = Sitting /\ in2 = Kitten
    /\ similarity = <<4, 7>>

\* C9: the score is a value in [0, 1]; the distance computed is between 0
\* and the longer normalised length, which is not zero when it divides.
C9_ScoreInUnitInterval ==
    Returned =>
        /\ IsValue(similarity)
        /\ 0 <= similarity[1] /\ similarity[1] <= similarity[2]
        /\ branch = "distance" =>
              /\ MaxLen(Len(nstr1), Len(nstr2)) > 0
              /\ 0 <= distance
              /\ distance <= MaxLen(Len(nstr1), Len(nstr2))

C9_Witness ==
    /\ called = "CalculateStringSimilarity"
    /\ branch = "distance"
    /\ Len(nstr1) < Len(nstr2)
    /\ distance = Len(nstr2)
    /\ IsZero(similarity)

----------------------------------------------------------------------------
(* Properties of concurrent invocations, under SpecConc *)

\* The user message of the farming strategy template for the given texts:
\* fixed segments around portfolio, price and apr, in that order.
IsTemplateFor(content, portfolio, price, apr) ==
    /\ Len(content) = 7
    /\ content[2] = portfolio /\ content[4] = price /\ content[6] = apr
    /\ \A i \in {1, 3, 5, 7} : content[i] = RenderFarmingStrategyPrompt("", "", "")[i]

\* The serialised TaskRecord of request r with the given strategy.
OwnTaskRecord(r, strategy) ==
    <<<<"price", StringField(request[r].body, "price")>>,
      <<"portfolio", StringField(request[r].body, "portfolio")>>,
      <<"model", StringField(request[r].body, "model")>>,
      <<"strategy", strategy>>,
      <<"apr", StringField(request[r].body, "apr")>>>>

\* C11: under any interleaving each request is isolated: its provider call
\* carries the persona prompt and the template rendered from its own
\* portfolio, price and apr; SendTask is called at most once for it and only
\* once its generation call has returned; on success the submitted record
\* holds its own four inputs and the strategy of its own generation call,
\* which is also the strategy of its success response.
C11_RequestsIsolated ==
    \A r \in ConcReqs :
        /\ (IsPost(r) /\ pc[r] # "idle") =>
              /\ Len(providerCalls[r]) = 1
              /\ Len(providerCalls[r][1].Messages) = 2
              /\ providerCalls[r][1].Messages[1] =
                    [Role |-> "system", Content |-> <<PersonaPrompt>>]
              /\ providerCalls[r][1].Messages[2].Role = "user"
              /\ IsTemplateFor(providerCalls[r][1].Messages[2].Content,
                               StringField(request[r].body, "portfolio"),
                               StringField(request[r].body, "price"),
                               StringField(request[r].body, "apr"))
        /\ Len(sendTaskCalls[r]) <= 1
        /\ sendTaskCalls[r] # <<>> => (IsPost(r) /\ Len(providerReplies[r]) = 1)
        /\ pc[r] # "done" => (sendTaskCalls[r] = <<>> /\ providerReplies[r] = <<>>)
        /\ (Done(r) /\ IsPost(r) /\ ~GenerationFailed(r)) =>
              LET strategy == providerReplies[r][1].choices[1]
              IN  /\ Len(sendTaskCalls[r]) = 1
                  /\ sendTaskCalls[r][1].proofOfTask = OwnTaskRecord(r, strategy)
                  /\ responses[r] = <<JSONResponse(200, "strategy", strategy)>>

\* One request has finished with its own record while another, with other
\* inputs, is still waiting for the provider.
C11_Witness ==
    \E r, q \in ConcReqs :
        /\ r # q
        /\ pc[q] = "awaitProvider" /\ IsPost(q)
        /\ Done(r) /\ IsPost(r) /\ ~GenerationFailed(r)
        /\ StringField(request[r].body, "price") = "3100"
        /\ StringField(request[q].body, "price") = "3000"
        /\ sendTaskCalls[r][1].proofOfTask = OwnTaskRecord(r, "strategy B")
        /\ sendTaskCalls[q] = <<>>

====
